---- MODULE Spec2Model ----
(***************************************************************************)
(* Verification model of fastapi-learning: the book service (Project 1),   *)
(* its exception handlers (rescue.py, api_response.py, exceptions/) and    *)
(* the token, login, admin and todo routes of the TodoApp (Project 3).     *)
(* Time is counted in whole seconds, the resolution of a JWT "exp" claim.  *)
(***************************************************************************)
EXTENDS Integers, Sequences, FiniteSets, TLC

VARIABLES
    app,        \* what runs: "books" (Project 1), "auth" (Project 3, the routes
                \* of auth.py and users.py), "todo" (Project 3, login and the
                \* routes of todos.py and admin.py), "rescue" (the exception
                \* handlers alone), "token" and "verify" (create_access_token
                \* and get_current_user alone)
    BOOKS,      \* Project 1/books.py: the in-memory list of books
    users,      \* Project 3: the rows of the Users table
    todos,      \* Project 3: the rows of the Todos table
    nextTodoId, \* Project 3: the id the Todos table gives its next row
    issued,     \* the calls of create_access_token whose tokens clients hold:
                \* their arguments, the time of the call and the token returned
    now,        \* the wall clock, in seconds
    resp        \* the request handled last and the response it was given

(***************************************************************************)
(* Bounds of the model.                                                    *)
(***************************************************************************)
MaxTime == 2
MaxBooks == 7
MaxErrs == 2
MaxTokens == 1

(***************************************************************************)
(* Response bodies.  A body is a record: keys is the set of its top-level  *)
(* keys, errors the value under "errors", timestamp the value under        *)
(* "timestamp" (-1 when the key is absent), detail, access_token (<<>>     *)
(* when absent, else <<token>>) and token_type likewise.  An errors value  *)
(* is a dict,                                                              *)
(* kept as an association list <<key, value>> in insertion order; a value  *)
(* is a sequence of strings (a bare string is the one-element sequence     *)
(* tagged shape "str").                                                    *)
(***************************************************************************)
NoErrors == <<>>

DictHas(d, k) == \E i \in 1..Len(d) : d[i][1] = k

DictGet(d, k) == d[CHOOSE i \in 1..Len(d) : d[i][1] = k][2]

\* Python's d[k] = v: replaces the value of an existing key, else inserts.
DictSet(d, k, v) ==
    IF DictHas(d, k)
    THEN [i \in 1..Len(d) |-> IF d[i][1] = k THEN <<k, v>> ELSE d[i]]
    ELSE Append(d, <<k, v>>)

StrVal(s) == [shape |-> "str", items |-> <<s>>]

ListVal(items) == [shape |-> "list", items |-> items]

\* A body with no keys.
EmptyBody ==
    [keys |-> {}, errors |-> NoErrors, timestamp |-> -1, detail |-> "",
     access_token |-> <<>>, token_type |-> ""]

\* json_response without the timestamp merge.
json_response_no_timestamp(data, status) == [status |-> status, body |-> data]

\* api_response.py: {**data, "timestamp": now} rendered with the given status.
json_response(data, status) ==
    [status |-> status,
     body |-> [data EXCEPT !.keys = @ \cup {"timestamp"}, !.timestamp = now]]

\* The dict literal {"errors": e} the handlers pass to json_response.
ErrorsData(e) == [EmptyBody EXCEPT !.keys = {"errors"}, !.errors = e]

(***************************************************************************)
(* Exceptions.  An exception object is a record carrying its class, the    *)
(* text str(exc) gives, and the attributes its constructor sets.           *)
(***************************************************************************)
Exc(cls, message, status_code, param, params, errs) ==
    [cls |-> cls, message |-> message, status_code |-> status_code,
     param |-> param, params |-> params, errs |-> errs]

\* exceptions/api_exception.py: APIException(message, status_code).
APIException(cls, message, status_code) ==
    Exc(cls, message, status_code, "", <<>>, <<>>)

RecordNotFound(resource, identifier) ==
    APIException("RecordNotFound",
                 resource \o " with identifier '" \o ToString(identifier)
                          \o "' not found",
                 404)

RecordInvalid(message) == APIException("RecordInvalid", message, 422)

ParameterMissing(param) ==
    [APIException("ParameterMissing",
                  "Parameter '" \o param \o "' is required", 422)
     EXCEPT !.param = param]

RECURSIVE JoinWith(_, _)
JoinWith(sep, seq) ==
    IF seq = <<>> THEN ""
    ELSE IF Len(seq) = 1 THEN seq[1]
    ELSE seq[1] \o sep \o JoinWith(sep, Tail(seq))

UnpermittedParameters(params) ==
    [APIException("UnpermittedParameters",
                  "Unpermitted parameters: " \o JoinWith(", ", params), 400)
     EXCEPT !.params = params]

NotAuthorized(message) == APIException("NotAuthorized", message, 403)

\* NotAuthorized(): the default message of the constructor.
NotAuthorizedDefault == NotAuthorized("Not authorized")

\* fastapi.exceptions.RequestValidationError(errors).
RequestValidationError(errs) ==
    Exc("RequestValidationError", "validation error", 0, "", <<>>, errs)

\* Any other exception class, built with a message.
BuiltinError(cls, message) == Exc(cls, message, 0, "", <<>>, <<>>)

\* The classes of an exception's __mro__, most specific first.
Mro(cls) ==
    CASE cls \in {"RecordNotFound", "RecordInvalid", "UnpermittedParameters",
                  "ParameterMissing", "NotAuthorized"}
            -> <<cls, "APIException", "Exception">>
      [] cls = "UnicodeError" -> <<cls, "ValueError", "Exception">>
      [] cls = "Exception" -> <<cls>>
      [] OTHER -> <<cls, "Exception">>

(***************************************************************************)
(* rescue.py: setup_exception_handlers.                                    *)
(***************************************************************************)
\* The classes given an @app.exception_handler rule.
RegisteredKinds ==
    {"RecordNotFound", "RecordInvalid", "UnpermittedParameters",
     "ParameterMissing", "RequestValidationError", "ValueError", "Exception"}

\* The rule that answers an exception: the first registered class of its mro.
HandlerFor(cls) ==
    LET m == Mro(cls)
        i == CHOOSE j \in 1..Len(m) :
                 /\ m[j] \in RegisteredKinds
                 /\ \A k \in 1..(j - 1) : m[k] \notin RegisteredKinds
    IN m[i]

rescue_from_record_not_found(exc) ==
    json_response(ErrorsData(<< <<"message", StrVal(exc.message)>> >>),
                  exc.status_code)

rescue_from_record_invalid(exc) ==
    json_response(ErrorsData(<< <<"message", StrVal(exc.message)>> >>),
                  exc.status_code)

rescue_from_unpermitted_parameters(exc) ==
    json_response(ErrorsData(<< <<"unknown_parameters", ListVal(exc.params)>> >>),
                  exc.status_code)

rescue_from_parameter_missing(exc) ==
    json_response(ErrorsData(<< <<exc.param, ListVal(<<"parameter is required">>)>> >>),
                  400)

\* ".".join(str(loc) for loc in error["loc"][1:])
FieldOf(loc) == JoinWith(".", IF loc = <<>> THEN <<>> ELSE Tail(loc))

\* The loop of rescue_from_validation_error over exc.errors().
RECURSIVE CollectErrors(_, _)
CollectErrors(errs, errors) ==
    IF errs = <<>> THEN errors
    ELSE CollectErrors(Tail(errs),
             DictSet(errors, FieldOf(Head(errs).loc),
                     ListVal(<<Head(errs).msg>>)))

rescue_from_validation_error(exc) ==
    json_response(ErrorsData(CollectErrors(exc.errs, <<>>)), 422)

rescue_from_argument_error(exc) ==
    json_response(ErrorsData(<< <<"message", StrVal(exc.message)>> >>), 400)

\* A catch-all that echoes the exception's text.
rescue_from_general_exception_echo(exc) ==
    json_response(ErrorsData(<< <<"message", StrVal(exc.message)>> >>), 500)

rescue_from_general_exception(exc) ==
    json_response(ErrorsData(<< <<"message", StrVal("Internal server error")>> >>),
                  500)

\* The response the registered handlers give to an exception a route raised.
Rescue(exc) ==
    LET h == HandlerFor(exc.cls) IN
    CASE h = "RecordNotFound" -> rescue_from_record_not_found(exc)
      [] h = "RecordInvalid" -> rescue_from_record_invalid(exc)
      [] h = "UnpermittedParameters" -> rescue_from_unpermitted_parameters(exc)
      [] h = "ParameterMissing" -> rescue_from_parameter_missing(exc)
      [] h = "RequestValidationError" -> rescue_from_validation_error(exc)
      [] h = "ValueError" -> rescue_from_argument_error(exc)
      [] OTHER -> rescue_from_general_exception(exc)


\* fastapi.HTTPException(status_code, detail).
HTTPException(status_code, detail) ==
    Exc("HTTPException", detail, status_code, "", <<>>, <<>>)

\* The rule for errors that carry a status and a message (NotAuthorized, and
\* the 401 and 404 failures the routes raise as HTTPException).
rescue_from_status_error(exc) ==
    json_response(ErrorsData(<< <<"message", StrVal(exc.message)>> >>),
                  exc.status_code)

\* The handlers of the TodoApp (config/rescue.py): those of the dispatch
\* table, the rules of Rescue with one for NotAuthorized and for the
\* status failures.
RescueTodo(exc) ==
    IF exc.cls \in {"NotAuthorized", "HTTPException"}
    THEN rescue_from_status_error(exc)
    ELSE Rescue(exc)

HandlerForTodo(cls) ==
    IF cls \in {"NotAuthorized", "HTTPException"} THEN cls ELSE HandlerFor(cls)

(***************************************************************************)
(* The request handled last.  svc and op name the route, arg the id it was *)
(* asked for, exc the exception the route raised (NoExc when it returned), *)
(* rule the handler rule that rendered it, at the time of the request,     *)
(* token the bearer token it carried (<<>> when none), reached whether the *)
(* route got as far as its store, changed whether the route changed its    *)
(* store, returned the records the route returned.                         *)
(***************************************************************************)
NoExc == Exc("", "", 0, "", <<>>, <<>>)

NoResp ==
    [svc |-> "none", op |-> "", arg |-> 0, at |-> 0, token |-> <<>>,
     username |-> "", password |-> "", exc |-> NoExc, rule |-> "",
     status |-> 0, body |-> EmptyBody, reached |-> FALSE, changed |-> FALSE,
     returned |-> {}]

\* An exception left a route: the registered handlers answer it.
Raised(svc, op, arg, exc) ==
    LET r == IF svc = "todo" THEN RescueTodo(exc) ELSE Rescue(exc) IN
    [NoResp EXCEPT !.svc = svc, !.op = op, !.arg = arg, !.at = now, !.exc = exc,
                   !.rule = IF svc = "todo" THEN HandlerForTodo(exc.cls)
                            ELSE HandlerFor(exc.cls),
                   !.status = r.status, !.body = r.body]

\* A route returned: the framework renders its value with the route's status.
Returned(svc, op, arg, status, keys, returned, changed) ==
    [NoResp EXCEPT !.svc = svc, !.op = op, !.arg = arg, !.at = now,
                   !.status = status, !.body = [EmptyBody EXCEPT !.keys = keys],
                   !.reached = TRUE, !.changed = changed, !.returned = returned]

(***************************************************************************)
(* Project 1/books.py.                                                     *)
(***************************************************************************)
InitialBooks ==
    << [id |-> 1, title |-> "Title One", author |-> "Author One", category |-> "science"],
       [id |-> 2, title |-> "Title Two", author |-> "Author Two", category |-> "science"],
       [id |-> 3, title |-> "Title Three", author |-> "Author Three", category |-> "history"],
       [id |-> 4, title |-> "Title Four", author |-> "Author Four", category |-> "math"],
       [id |-> 5, title |-> "Title Five", author |-> "Author Five", category |-> "math"],
       [id |-> 6, title |-> "Title Six", author |-> "Author Two", category |-> "math"] >>

BookKeys == {"id", "title", "author", "category"}

\* The book ids requests ask for: 0 fails the gt=0 validation of ValidBookId.
BookIdInputs == {0, 1, 6, 7}

\* The bodies of create requests (BookCreate: title, author, category).
NewBookInputs == {[title |-> "New", author |-> "New Author", category |-> "math"]}

\* The bodies of update requests, as model_dump(exclude_unset=True) gives them.
UpdateInputs ==
    {[k \in ks |-> "Changed"] : ks \in {{}, {"title"}, {"author", "category"}}}

\* ValidBookId: Path(gt=0); the framework raises before the route runs.
BookIdInvalid(book_id) ==
    RequestValidationError(
        << [loc |-> <<"path", "book_id">>, msg |-> "Input should be greater than 0"] >>)

\* The index of the first book with the id, 0 when there is none.
FindBook(book_id) ==
    IF \E i \in 1..Len(BOOKS) : BOOKS[i].id = book_id
    THEN CHOOSE i \in 1..Len(BOOKS) :
             /\ BOOKS[i].id = book_id
             /\ \A j \in 1..(i - 1) : BOOKS[j].id # book_id
    ELSE 0

RECURSIVE MaxOf(_)
MaxOf(S) ==
    IF S = {} THEN 0
    ELSE LET x == CHOOSE y \in S : TRUE
             m == MaxOf(S \ {x})
         IN IF x > m THEN x ELSE m

\* A new id taken from the number of books.
NewBookIdByCount == Len(BOOKS) + 1

\* max((book["id"] for book in BOOKS), default=0) + 1
NewBookId == MaxOf({BOOKS[i].id : i \in 1..Len(BOOKS)}) + 1

RemoveAt(seq, i) == SubSeq(seq, 1, i - 1) \o SubSeq(seq, i + 1, Len(seq))

\* The loop of update over update_data.items(), the "id" key skipped.
ApplyUpdates(book, update_data) ==
    [k \in DOMAIN book |->
        IF k \in DOMAIN update_data /\ k # "id" THEN update_data[k] ELSE book[k]]

show(book_id) ==
    /\ resp' = IF book_id <= 0 THEN Raised("books", "show", book_id, BookIdInvalid(book_id))
               ELSE IF FindBook(book_id) # 0
               THEN Returned("books", "show", book_id, 200, BookKeys,
                             {BOOKS[FindBook(book_id)]}, FALSE)
               ELSE Raised("books", "show", book_id, RecordNotFound("Book", book_id))
    /\ UNCHANGED <<app, BOOKS, now, users, todos, nextTodoId, issued>>

create(new_book) ==
    /\ Len(BOOKS) < MaxBooks
    /\ LET book_dict == [k \in BookKeys |->
                            IF k = "id" THEN NewBookId ELSE new_book[k]]
       IN /\ BOOKS' = Append(BOOKS, book_dict)
          /\ resp' = Returned("books", "create", 0, 201, BookKeys, {book_dict}, TRUE)
    /\ UNCHANGED <<app, now, users, todos, nextTodoId, issued>>

update(book_id, updates) ==
    LET i == FindBook(book_id) IN
    /\ IF book_id <= 0
       THEN /\ resp' = Raised("books", "update", book_id, BookIdInvalid(book_id))
            /\ UNCHANGED BOOKS
       ELSE IF i # 0
       THEN /\ BOOKS' = [BOOKS EXCEPT ![i] = ApplyUpdates(BOOKS[i], updates)]
            /\ resp' = Returned("books", "update", book_id, 200, BookKeys,
                                {BOOKS'[i]}, BOOKS' # BOOKS)
       ELSE /\ resp' = Raised("books", "update", book_id, RecordNotFound("Book", book_id))
            /\ UNCHANGED BOOKS
    /\ UNCHANGED <<app, now, users, todos, nextTodoId, issued>>

destroy(book_id) ==
    LET i == FindBook(book_id) IN
    /\ IF book_id <= 0
       THEN /\ resp' = Raised("books", "destroy", book_id, BookIdInvalid(book_id))
            /\ UNCHANGED BOOKS
       ELSE IF i # 0
       THEN /\ BOOKS' = RemoveAt(BOOKS, i)
            /\ resp' = Returned("books", "destroy", book_id, 204, {}, {}, TRUE)
       ELSE /\ resp' = Raised("books", "destroy", book_id, RecordNotFound("Book", book_id))
            /\ UNCHANGED BOOKS
    /\ UNCHANGED <<app, now, users, todos, nextTodoId, issued>>

(***************************************************************************)
(* Project 3/TodoApp/routers/auth.py.  A Python value that may be None is  *)
(* kept as None or Some(value).                                            *)
(***************************************************************************)
None == <<>>

Some(x) == <<x>>

SECRET_KEY == "secret"

ALGORITHM == "HS256"

USER_VALIDATION_FAILED_MESSAGE == "Could not validate user"

\* settings.access_token_expire_minutes, in ticks of the clock.
ACCESS_TOKEN_EXPIRE == 1

\* The signature of a payload under a key and an algorithm: it is a function
\* of all of them, and no two inputs share one.
Sign(key, alg, sub, id, role, exp) == <<key, alg, sub, id, role, exp>>

\* jose.jwt.encode(claims, key, algorithm).
jwt_encode(claims, key, algorithm) ==
    [wf |-> TRUE, alg |-> algorithm, sub |-> claims.sub, id |-> claims.id,
     role |-> claims.role, exp |-> claims.exp,
     sig |-> Sign(key, algorithm, claims.sub, claims.id, claims.role, claims.exp)]

\* create_access_token putting the user id under "sub".
create_access_token_swapped(username, user_id, role, expires_delta) ==
    jwt_encode([sub |-> Some(ToString(user_id)), id |-> Some(user_id), role |-> role,
                exp |-> now + expires_delta],
               SECRET_KEY, ALGORITHM)

create_access_token(username, user_id, role, expires_delta) ==
    jwt_encode([sub |-> Some(username), id |-> Some(user_id), role |-> role,
                exp |-> now + expires_delta],
               SECRET_KEY, ALGORITHM)

\* jose.jwt.decode accepting a token until the second before its "exp".
jwt_decode_early(token, key, algorithms) ==
    IF /\ token.wf
       /\ token.alg \in algorithms
       /\ token.sig = Sign(key, token.alg, token.sub, token.id, token.role, token.exp)
       /\ ~(token.exp <= now)
    THEN [err |-> FALSE, sub |-> token.sub, id |-> token.id, role |-> token.role]
    ELSE [err |-> TRUE, sub |-> None, id |-> None, role |-> None]

\* jose.jwt.decode(token, key, algorithms): the payload, or a JWTError when
\* the token does not parse, names another algorithm, carries a signature
\* that does not match, or has an "exp" before the current second.
jwt_decode(token, key, algorithms) ==
    IF /\ token.wf
       /\ token.alg \in algorithms
       /\ token.sig = Sign(key, token.alg, token.sub, token.id, token.role, token.exp)
       /\ ~(token.exp < now)
    THEN [err |-> FALSE, sub |-> token.sub, id |-> token.id, role |-> token.role]
    ELSE [err |-> TRUE, sub |-> None, id |-> None, role |-> None]

NoUser == [username |-> None, id |-> None, user_role |-> None]

\* get_current_user reading payload["sub"] and payload["id"]: a missing
\* claim raises KeyError, which the except clause does not catch.
get_current_user_subscript(token) ==
    LET payload == jwt_decode(token, SECRET_KEY, {ALGORITHM}) IN
    IF payload.err
    THEN [exc |-> HTTPException(401, USER_VALIDATION_FAILED_MESSAGE), user |-> NoUser]
    ELSE IF payload.sub = None \/ payload.id = None
    THEN [exc |-> BuiltinError("KeyError", "sub"), user |-> NoUser]
    ELSE [exc |-> NoExc,
          user |-> [username |-> payload.sub, id |-> payload.id,
                    user_role |-> payload.role]]

\* What get_current_user gives: exc is the exception it raised (NoExc when it
\* returned), user the dict it returned.
get_current_user(token) ==
    LET payload == jwt_decode(token, SECRET_KEY, {ALGORITHM}) IN
    IF payload.err
    THEN [exc |-> HTTPException(401, USER_VALIDATION_FAILED_MESSAGE), user |-> NoUser]
    ELSE IF payload.sub = None \/ payload.id = None
    THEN [exc |-> HTTPException(401, USER_VALIDATION_FAILED_MESSAGE), user |-> NoUser]
    ELSE [exc |-> NoExc,
          user |-> [username |-> payload.sub, id |-> payload.id,
                    user_role |-> payload.role]]

\* oauth2_bearer, then get_current_user: the dependency of a protected route.
\* A request without a bearer token is refused by oauth2_bearer.
user_dependency(token) ==
    IF token = <<>>
    THEN [exc |-> HTTPException(401, "Not authenticated"), user |-> NoUser]
    ELSE get_current_user(token[1])

\* bcrypt_context.hash and bcrypt_context.verify.
bcrypt_hash(password) == [scheme |-> "bcrypt", of |-> password]

bcrypt_verify(password, hashed) == hashed.scheme = "bcrypt" /\ hashed.of = password

\* db.query(Users).filter(...).first(): the rows in id order, the first kept.
FirstUser(rows) ==
    IF rows = {} THEN {}
    ELSE {CHOOSE u \in rows : \A v \in rows : u.id <= v.id}

\* authenticate_user that does not check the password.
authenticate_user_any_password(username, password) ==
    FirstUser({u \in users : u.username = username})

\* authenticate_user: {} for False, {user} for the user it returns.
authenticate_user(username, password) ==
    LET user == FirstUser({u \in users : u.username = username}) IN
    IF user = {} THEN {}
    ELSE IF ~bcrypt_verify(password, (CHOOSE u \in user : TRUE).hashed_password) THEN {}
    ELSE user

Usernames == {"alice", "bob"}

Passwords == {"pw1", "pw2"}

\* The bodies of register requests (CreateUserRequest).
RegisterInputs ==
    {[username |-> "alice", role |-> "admin", password |-> "pw1"],
     [username |-> "bob", role |-> "user", password |-> "pw1"]}

TodoVars == <<todos, nextTodoId>>

\* The record of a create_access_token call.
IssuedRecord(username, user_id, role, expires_delta, token) ==
    [username |-> username, id |-> user_id, role |-> role, at |-> now,
     expires_delta |-> expires_delta, token |-> token]

\* The Users table keeps usernames unique: the commit of a second row of
\* the same username fails.
UsernameTaken(username) == \E u \in users : u.username = username

\* POST /auth/register.
register_user(req) ==
    /\ IF UsernameTaken(req.username)
       THEN /\ resp' = Raised("todo", "register_user", 0,
                              BuiltinError("IntegrityError", "UNIQUE constraint failed"))
            /\ UNCHANGED users
       ELSE /\ users' = users \cup
                    {[id |-> Cardinality(users) + 1, username |-> req.username,
                      role |-> req.role,
                      hashed_password |-> bcrypt_hash(req.password)]}
            /\ resp' = Returned("todo", "register_user", 0, 201, {}, {}, TRUE)
    /\ UNCHANGED <<app, BOOKS, now, todos, nextTodoId, issued>>

\* The body login returns.
TokenBody(token) ==
    [EmptyBody EXCEPT !.keys = {"access_token", "token_type"},
                      !.access_token = <<token>>, !.token_type = "bearer"]

\* POST /auth/login.
login(username, password) ==
    LET user == authenticate_user(username, password)
        u == CHOOSE x \in user : TRUE
        token == create_access_token(u.username, u.id, Some(u.role), ACCESS_TOKEN_EXPIRE)
    IN
    /\ IF user = {}
       THEN /\ resp' = [Raised("todo", "login", 0,
                               HTTPException(401, USER_VALIDATION_FAILED_MESSAGE))
                        EXCEPT !.username = username, !.password = password]
            /\ UNCHANGED issued
       ELSE /\ issued' =
                   {IssuedRecord(u.username, u.id, Some(u.role), ACCESS_TOKEN_EXPIRE, token)}
            /\ resp' = [Returned("todo", "login", 0, 200, {}, {}, FALSE)
                        EXCEPT !.username = username, !.password = password,
                               !.body = TokenBody(token)]
    /\ UNCHANGED <<app, BOOKS, now, users, todos, nextTodoId>>

(***************************************************************************)
(* Project 3/TodoApp/routers/users.py.                                     *)
(***************************************************************************)
\* The bearer tokens a request can carry: none, the token the last login
\* returned, or that token with its role and expiry rewritten and the
\* signature kept.
Garbage ==
    [wf |-> FALSE, alg |-> "", sub |-> None, id |-> None, role |-> None,
     exp |-> 0, sig |-> <<>>]

Tampered(token) == [token EXCEPT !.role = Some("admin"), !.exp = @ + 1]

RequestTokens ==
    {<<>>} \cup {<<r.token>> : r \in issued}
    \cup {<<Tampered(r.token)>> : r \in issued}

UserById(id) == FirstUser({u \in users : Some(u.id) = id})

\* GET /users/me.
get_current_user_info(token) ==
    LET dep == user_dependency(token) IN
    /\ resp' = IF dep.exc # NoExc
               THEN [Raised("todo", "get_current_user_info", 0, dep.exc)
                     EXCEPT !.token = token]
               ELSE IF dep.user = NoUser
               THEN [Raised("todo", "get_current_user_info", 0, NotAuthorizedDefault)
                     EXCEPT !.token = token]
               ELSE [Returned("todo", "get_current_user_info", 0, 200, {},
                              UserById(dep.user.id), FALSE)
                     EXCEPT !.token = token]
    /\ UNCHANGED <<app, BOOKS, now, users, todos, nextTodoId, issued>>

\* PUT /users/me/password.
change_password(token, password, new_password) ==
    LET dep == user_dependency(token)
        user_model == UserById(dep.user.id)
        um == CHOOSE u \in user_model : TRUE
    IN
    /\ IF dep.exc # NoExc
       THEN /\ resp' = [Raised("todo", "change_password", 0, dep.exc)
                        EXCEPT !.token = token]
            /\ UNCHANGED users
       ELSE IF dep.user = NoUser
       THEN /\ resp' = [Raised("todo", "change_password", 0, NotAuthorizedDefault)
                        EXCEPT !.token = token]
            /\ UNCHANGED users
       ELSE IF user_model = {}
       THEN /\ resp' = [Raised("todo", "change_password", 0,
                               BuiltinError("AttributeError",
                                   "'NoneType' object has no attribute 'hashed_password'"))
                        EXCEPT !.token = token, !.reached = TRUE]
            /\ UNCHANGED users
       ELSE IF ~bcrypt_verify(password, um.hashed_password)
       THEN /\ resp' = [Raised("todo", "change_password", 0,
                               NotAuthorized("Current password is incorrect"))
                        EXCEPT !.token = token, !.reached = TRUE]
            /\ UNCHANGED users
       ELSE /\ users' = (users \ {um}) \cup
                    {[um EXCEPT !.hashed_password = bcrypt_hash(new_password)]}
            /\ resp' = [Returned("todo", "change_password", 0, 204, {}, {},
                                 users' # users)
                        EXCEPT !.token = token]
    /\ UNCHANGED <<app, BOOKS, now, todos, nextTodoId, issued>>

(***************************************************************************)
(* Project 3/TodoApp/routers/admin.py.                                     *)
(***************************************************************************)
\* A role check that lets every user with a role through.
IsAdminAnyRole(user) == user.user_role # None

\* user.get("user_role") != "admin", negated.
IsAdmin(user) == user.user_role = Some("admin")

\* The todo ids requests ask for: 0 fails the gt=0 validation of the path.
TodoIdInputs == {0, 1}

\* raise RecordNotFound("Todo not found"): the constructor takes a resource
\* and an identifier, so the call itself fails.
RecordNotFoundOneArgument ==
    BuiltinError("TypeError",
        "RecordNotFound.__init__() missing 1 required positional argument: 'identifier'")

\* GET /admin/todos.
get_all_todos(token) ==
    LET dep == user_dependency(token) IN
    /\ resp' = IF dep.exc # NoExc
               THEN [Raised("todo", "get_all_todos", 0, dep.exc) EXCEPT !.token = token]
               ELSE IF dep.user = NoUser
               THEN [Raised("todo", "get_all_todos", 0, NotAuthorizedDefault)
                     EXCEPT !.token = token]
               ELSE IF ~IsAdmin(dep.user)
               THEN [Raised("todo", "get_all_todos", 0,
                            NotAuthorized("Admin access required"))
                     EXCEPT !.token = token]
               ELSE [Returned("todo", "get_all_todos", 0, 200, {}, todos, FALSE)
                     EXCEPT !.token = token]
    /\ UNCHANGED <<app, BOOKS, now, users, todos, nextTodoId, issued>>

\* DELETE /admin/todos/{todo_id}.
admin_delete_todo(token, todo_id) ==
    LET dep == user_dependency(token)
        todo_model == {t \in todos : t.id = todo_id}
    IN
    /\ IF dep.exc # NoExc
       THEN /\ resp' = [Raised("todo", "admin_delete_todo", todo_id, dep.exc)
                        EXCEPT !.token = token]
            /\ UNCHANGED todos
       ELSE IF dep.user = NoUser
       THEN /\ resp' = [Raised("todo", "admin_delete_todo", todo_id, NotAuthorizedDefault)
                        EXCEPT !.token = token]
            /\ UNCHANGED todos
       ELSE IF ~IsAdmin(dep.user)
       THEN /\ resp' = [Raised("todo", "admin_delete_todo", todo_id,
                               NotAuthorized("Admin access required"))
                        EXCEPT !.token = token]
            /\ UNCHANGED todos
       ELSE IF todo_model = {}
       THEN /\ resp' = [Raised("todo", "admin_delete_todo", todo_id,
                               RecordNotFoundOneArgument)
                        EXCEPT !.token = token, !.reached = TRUE]
            /\ UNCHANGED todos
       ELSE /\ todos' = {t \in todos : t.id # todo_id}
            /\ resp' = [Returned("todo", "admin_delete_todo", todo_id, 204, {}, {},
                                 todos' # todos)
                        EXCEPT !.token = token]
    /\ UNCHANGED <<app, BOOKS, now, users, nextTodoId, issued>>

(***************************************************************************)
(* Project 3/TodoApp/routers/todos.py.                                     *)
(***************************************************************************)
AUTH_FAILED_MESSAGE == "Authentication Failed"

RECORD_NOT_FOUND_MESSAGE == "Record not found"

\* A body that fails the validation of TodoRequest in two fields.
InvalidTodoRequest ==
    [title |-> "ab", description |-> "Too short a title", priority |-> 9,
     complete |-> FALSE]

\* The bodies of create requests.
CreateTodoInputs ==
    {[title |-> "Buy milk", description |-> "Two litres", priority |-> 3,
      complete |-> FALSE],
     InvalidTodoRequest}

\* The bodies of update requests.
UpdateTodoInputs ==
    {[title |-> "Walk the dog", description |-> "In the park", priority |-> 1,
      complete |-> TRUE],
     InvalidTodoRequest}

\* The ids the Todos table gives out before the model stops adding rows.
TodoIdRange == {1}

\* The validation of TodoRequest: one error for each field out of its range.
TodoRequestErrors(body) ==
    (IF Len(body.title) < 3
     THEN << [loc |-> <<"body", "title">>,
              msg |-> "String should have at least 3 characters"] >>
     ELSE <<>>)
    \o (IF Len(body.description) < 3
        THEN << [loc |-> <<"body", "description">>,
                 msg |-> "String should have at least 3 characters"] >>
        ELSE IF Len(body.description) > 100
        THEN << [loc |-> <<"body", "description">>,
                 msg |-> "String should have at most 100 characters"] >>
        ELSE <<>>)
    \o (IF ~(body.priority > 0)
        THEN << [loc |-> <<"body", "priority">>,
                 msg |-> "Input should be greater than 0"] >>
        ELSE IF ~(body.priority < 6)
        THEN << [loc |-> <<"body", "priority">>,
                 msg |-> "Input should be less than 6"] >>
        ELSE <<>>)

\* todo_id: int = Path(gt=0).
TodoIdErrors(todo_id) ==
    IF todo_id > 0 THEN <<>>
    ELSE << [loc |-> <<"path", "todo_id">>, msg |-> "Input should be greater than 0"] >>

\* The query without the filter on owner_id.
OwnTodoAnyOwner(todo_id, user) == {t \in todos : t.id = todo_id}

\* db.query(Todos).filter(Todos.id == todo_id)
\*   .filter(Todos.owner_id == user.get("id")).first()
OwnTodo(todo_id, user) ==
    {t \in todos : t.id = todo_id /\ Some(t.owner_id) = user.id}

\* GET /.
read_all(token) ==
    LET dep == user_dependency(token) IN
    /\ resp' = IF dep.exc # NoExc
               THEN [Raised("todo", "read_all", 0, dep.exc) EXCEPT !.token = token]
               ELSE IF dep.user = NoUser
               THEN [Raised("todo", "read_all", 0, HTTPException(401, AUTH_FAILED_MESSAGE))
                     EXCEPT !.token = token]
               ELSE [Returned("todo", "read_all", 0, 200, {},
                              {t \in todos : Some(t.owner_id) = dep.user.id}, FALSE)
                     EXCEPT !.token = token]
    /\ UNCHANGED <<app, BOOKS, now, users, todos, nextTodoId, issued>>

\* GET /todo/{todo_id}.
read_todo(token, todo_id) ==
    LET dep == user_dependency(token)
        todo_model == OwnTodo(todo_id, dep.user)
    IN
    /\ resp' = IF dep.exc # NoExc
               THEN [Raised("todo", "read_todo", todo_id, dep.exc) EXCEPT !.token = token]
               ELSE IF TodoIdErrors(todo_id) # <<>>
               THEN [Raised("todo", "read_todo", todo_id,
                            RequestValidationError(TodoIdErrors(todo_id)))
                     EXCEPT !.token = token]
               ELSE IF dep.user = NoUser
               THEN [Raised("todo", "read_todo", todo_id,
                            HTTPException(401, AUTH_FAILED_MESSAGE))
                     EXCEPT !.token = token]
               ELSE IF todo_model # {}
               THEN [Returned("todo", "read_todo", todo_id, 200, {}, todo_model, FALSE)
                     EXCEPT !.token = token]
               ELSE [Raised("todo", "read_todo", todo_id,
                            HTTPException(404, RECORD_NOT_FOUND_MESSAGE))
                     EXCEPT !.token = token, !.reached = TRUE]
    /\ UNCHANGED <<app, BOOKS, now, users, todos, nextTodoId, issued>>

\* POST /todo.
create_todo(token, todo_request) ==
    LET dep == user_dependency(token) IN
    /\ IF dep.exc # NoExc
       THEN /\ resp' = [Raised("todo", "create_todo", 0, dep.exc) EXCEPT !.token = token]
            /\ UNCHANGED TodoVars
       ELSE IF TodoRequestErrors(todo_request) # <<>>
       THEN /\ resp' = [Raised("todo", "create_todo", 0,
                               RequestValidationError(TodoRequestErrors(todo_request)))
                        EXCEPT !.token = token]
            /\ UNCHANGED TodoVars
       ELSE IF dep.user = NoUser
       THEN /\ resp' = [Raised("todo", "create_todo", 0,
                               HTTPException(401, AUTH_FAILED_MESSAGE))
                        EXCEPT !.token = token]
            /\ UNCHANGED TodoVars
       ELSE /\ nextTodoId \in TodoIdRange
            /\ todos' = todos \cup
                   {[id |-> nextTodoId, owner_id |-> dep.user.id[1],
                     title |-> todo_request.title,
                     description |-> todo_request.description,
                     priority |-> todo_request.priority,
                     complete |-> todo_request.complete]}
            /\ nextTodoId' = nextTodoId + 1
            /\ resp' = [Returned("todo", "create_todo", 0, 201, {}, {}, TRUE)
                        EXCEPT !.token = token]
    /\ UNCHANGED <<app, BOOKS, now, users, issued>>

\* PUT /todo/{todo_id}.
update_todo(token, todo_request, todo_id) ==
    LET dep == user_dependency(token)
        todo_model == OwnTodo(todo_id, dep.user)
        tm == CHOOSE t \in todo_model : TRUE
    IN
    /\ IF dep.exc # NoExc
       THEN /\ resp' = [Raised("todo", "update_todo", todo_id, dep.exc)
                        EXCEPT !.token = token]
            /\ UNCHANGED todos
       ELSE IF TodoIdErrors(todo_id) \o TodoRequestErrors(todo_request) # <<>>
       THEN /\ resp' = [Raised("todo", "update_todo", todo_id,
                               RequestValidationError(
                                   TodoIdErrors(todo_id) \o TodoRequestErrors(todo_request)))
                        EXCEPT !.token = token]
            /\ UNCHANGED todos
       ELSE IF dep.user = NoUser
       THEN /\ resp' = [Raised("todo", "update_todo", todo_id,
                               HTTPException(401, AUTH_FAILED_MESSAGE))
                        EXCEPT !.token = token]
            /\ UNCHANGED todos
       ELSE IF todo_model = {}
       THEN /\ resp' = [Raised("todo", "update_todo", todo_id,
                               HTTPException(404, RECORD_NOT_FOUND_MESSAGE))
                        EXCEPT !.token = token, !.reached = TRUE]
            /\ UNCHANGED todos
       ELSE /\ todos' = (todos \ {tm}) \cup
                   {[tm EXCEPT !.title = todo_request.title,
                               !.description = todo_request.description,
                               !.priority = todo_request.priority,
                               !.complete = todo_request.complete]}
            /\ resp' = [Returned("todo", "update_todo", todo_id, 204, {}, {},
                                 todos' # todos)
                        EXCEPT !.token = token]
    /\ UNCHANGED <<app, BOOKS, now, users, nextTodoId, issued>>

\* DELETE /todo/{todo_id}.
delete_todo(token, todo_id) ==
    LET dep == user_dependency(token)
        todo_model == OwnTodo(todo_id, dep.user)
    IN
    /\ IF dep.exc # NoExc
       THEN /\ resp' = [Raised("todo", "delete_todo", todo_id, dep.exc)
                        EXCEPT !.token = token]
            /\ UNCHANGED todos
       ELSE IF TodoIdErrors(todo_id) # <<>>
       THEN /\ resp' = [Raised("todo", "delete_todo", todo_id,
                               RequestValidationError(TodoIdErrors(todo_id)))
                        EXCEPT !.token = token]
            /\ UNCHANGED todos
       ELSE IF dep.user = NoUser
       THEN /\ resp' = [Raised("todo", "delete_todo", todo_id,
                               HTTPException(401, AUTH_FAILED_MESSAGE))
                        EXCEPT !.token = token]
            /\ UNCHANGED todos
       ELSE IF todo_model = {}
       THEN /\ resp' = [Raised("todo", "delete_todo", todo_id,
                               HTTPException(404, RECORD_NOT_FOUND_MESSAGE))
                        EXCEPT !.token = token, !.reached = TRUE]
            /\ UNCHANGED todos
       ELSE /\ todos' = todos \ OwnTodo(todo_id, dep.user)
            /\ resp' = [Returned("todo", "delete_todo", todo_id, 204, {}, {},
                                 todos' # todos)
                        EXCEPT !.token = token]
    /\ UNCHANGED <<app, BOOKS, now, users, nextTodoId, issued>>

(***************************************************************************)
(* The functions of auth.py called on their own.                           *)
(***************************************************************************)
\* The identities create_access_token is called with.
IdentityInputs ==
    {[username |-> "alice", id |-> 1, role |-> Some("admin")],
     [username |-> "bob", id |-> 2, role |-> Some("user")],
     [username |-> "", id |-> 0, role |-> None]}

\* The lifetimes create_access_token is called with.
TtlInputs == {-1, 0, 1}

\* The tokens get_current_user is called with: every payload, signed with
\* the configured key or another, under the configured algorithm or
\* another; those tokens changed after signing; and a string that is no
\* token.
SignedTokenInputs ==
    {jwt_encode([sub |-> sub, id |-> id, role |-> role, exp |-> exp], key, alg) :
        sub \in {None, Some("alice")}, id \in {None, Some(1)},
        role \in {None, Some("user")}, exp \in {0, MaxTime},
        key \in {SECRET_KEY, "other"}, alg \in {ALGORITHM, "none"}}

TokenInputs ==
    SignedTokenInputs \cup {Tampered(t) : t \in SignedTokenInputs}
    \cup {[t EXCEPT !.sig = <<>>] : t \in SignedTokenInputs} \cup {Garbage}

call_create_access_token(identity, expires_delta) ==
    /\ Cardinality(issued) < MaxTokens
    /\ issued' = issued \cup
           {IssuedRecord(identity.username, identity.id, identity.role, expires_delta,
                create_access_token(identity.username, identity.id, identity.role,
                                    expires_delta))}
    /\ UNCHANGED <<app, BOOKS, now, resp, users, todos, nextTodoId>>

call_get_current_user(token) ==
    LET got == get_current_user(token) IN
    /\ resp' = [NoResp EXCEPT !.svc = "verify", !.op = "get_current_user",
                              !.at = now, !.token = <<token>>, !.exc = got.exc,
                              !.status = got.exc.status_code,
                              !.reached = got.exc = NoExc,
                              !.returned = IF got.exc = NoExc THEN {got.user} ELSE {}]
    /\ UNCHANGED <<app, BOOKS, now, users, todos, nextTodoId, issued>>

(***************************************************************************)
(* The handlers applied to the exceptions a route can raise.               *)
(***************************************************************************)
Texts == {"boom", "secret detail"}

\* Exceptions of every class, registered or not.
ExcInputs ==
    {RecordNotFound("Book", 9), RecordInvalid("boom"), ParameterMissing("title"),
     UnpermittedParameters(<<"x", "y">>), NotAuthorizedDefault,
     NotAuthorized("Admin access required")}
    \cup {BuiltinError(c, t) :
            c \in {"ValueError", "UnicodeError", "TypeError", "KeyError",
                   "RuntimeError", "Exception"},
            t \in Texts}

Locs == {<<"body", "title">>, <<"query", "title">>, <<"body", "priority">>,
         <<"body", "author", "name">>}

Msgs == {"Field required", "Input should be less than 6"}

ValidationErrorInputs == [loc : Locs, msg : Msgs]

RECURSIVE SeqsUpTo(_, _)
SeqsUpTo(S, n) ==
    IF n = 0 THEN {<<>>}
    ELSE SeqsUpTo(S, n - 1)
         \cup {Append(q, x) : q \in {r \in SeqsUpTo(S, n - 1) : Len(r) = n - 1}, x \in S}

\* A route raises exc.
RaiseInHandler(exc) ==
    /\ resp' = Raised("rescue", "raise", 0, exc)
    /\ UNCHANGED <<app, BOOKS, now, users, todos, nextTodoId, issued>>

\* Request validation fails with the errors errs (at least one).
FailValidation(errs) ==
    /\ errs # <<>>
    /\ resp' = Raised("rescue", "validate", 0, RequestValidationError(errs))
    /\ UNCHANGED <<app, BOOKS, now, users, todos, nextTodoId, issued>>

Tick ==
    /\ now < MaxTime
    /\ now' = now + 1
    /\ UNCHANGED <<app, BOOKS, resp, users, todos, nextTodoId, issued>>

vars == <<app, BOOKS, now, resp, users, todos, nextTodoId, issued>>

Init ==
    /\ app \in {"books", "rescue", "auth", "todo", "token", "verify"}
    /\ BOOKS = InitialBooks
    /\ users = {}
    /\ todos = {}
    /\ nextTodoId = 1
    /\ issued = {}
    /\ now = 0
    /\ resp = NoResp

NextBooks ==
    /\ app = "books"
    /\ \/ \E book_id \in BookIdInputs : show(book_id)
       \/ \E new_book \in NewBookInputs : create(new_book)
       \/ \E book_id \in BookIdInputs, updates \in UpdateInputs : update(book_id, updates)
       \/ \E book_id \in BookIdInputs : destroy(book_id)

NextRescue ==
    /\ app = "rescue"
    /\ \/ \E exc \in ExcInputs : RaiseInHandler(exc)
       \/ \E errs \in SeqsUpTo(ValidationErrorInputs, MaxErrs) : FailValidation(errs)

NextAuth ==
    /\ app = "auth"
    /\ \/ \E req \in RegisterInputs : register_user(req)
       \/ \E username \in Usernames, password \in Passwords : login(username, password)
       \/ \E token \in RequestTokens : get_current_user_info(token)
       \/ \E token \in RequestTokens, password \in Passwords, new_password \in Passwords :
              change_password(token, password, new_password)

NextTodo ==
    /\ app = "todo"
    /\ \/ \E req \in RegisterInputs : register_user(req)
       \/ \E username \in Usernames, password \in Passwords : login(username, password)
       \/ \E token \in RequestTokens : get_all_todos(token)
       \/ \E token \in RequestTokens, todo_id \in TodoIdInputs :
              admin_delete_todo(token, todo_id)
       \/ \E token \in RequestTokens : read_all(token)
       \/ \E token \in RequestTokens, todo_id \in TodoIdInputs : read_todo(token, todo_id)
       \/ \E token \in RequestTokens, todo_request \in CreateTodoInputs :
              create_todo(token, todo_request)
       \/ \E token \in RequestTokens, todo_request \in UpdateTodoInputs,
             todo_id \in TodoIdInputs :
              update_todo(token, todo_request, todo_id)
       \/ \E token \in RequestTokens, todo_id \in TodoIdInputs : delete_todo(token, todo_id)

NextToken ==
    /\ app = "token"
    /\ \E identity \in IdentityInputs, expires_delta \in TtlInputs :
           call_create_access_token(identity, expires_delta)

NextVerify ==
    /\ app = "verify"
    /\ \E token \in TokenInputs : call_get_current_user(token)

TickClock ==
    /\ app \in {"auth", "todo", "token", "verify"}
    /\ Tick

Next ==
    NextBooks \/ NextRescue \/ NextAuth \/ NextTodo \/ NextToken \/ NextVerify \/ TickClock

Spec == Init /\ [][Next]_vars

(***************************************************************************)
(* Properties.                                                             *)
(***************************************************************************)
Range(seq) == {seq[i] : i \in 1..Len(seq)}

\* The message of a body {"errors": {"message": m}}.
HasMessage(body, m) ==
    /\ "errors" \in body.keys
    /\ body.errors = << <<"message", StrVal(m)>> >>

InvalidCredentials == HTTPException(401, USER_VALIDATION_FAILED_MESSAGE)

\* C1: a token create_access_token returned for an identity and a lifetime
\* is accepted by get_current_user, which yields that username, id and role,
\* at every time up to the call's time plus the lifetime, whatever was
\* registered, changed or issued since; after that time get_current_user
\* rejects it with the 401 invalid-credentials failure.
C1_TokenValidUntilExpiry ==
    \A r \in issued :
        LET got == get_current_user(r.token) IN
        IF now <= r.at + r.expires_delta
        THEN /\ got.exc = NoExc
             /\ got.user = [username |-> Some(r.username), id |-> Some(r.id),
                            user_role |-> r.role]
        ELSE got.exc = InvalidCredentials

\* C1 witness: a held token has expired, and the last request changed a
\* password with it while it was valid.
C1_Witness ==
    /\ resp.op = "change_password"
    /\ resp.status = 204
    /\ \E r \in issued : resp.token = <<r.token>> /\ now > r.at + r.expires_delta

\* The stored users a username and password authenticate.
Authenticates(username, password) ==
    {u \in users : u.username = username /\ bcrypt_verify(password, u.hashed_password)}

\* C2: authenticate_user returns the stored user exactly when a user of that
\* username exists and the password verifies against its stored hash, and
\* the one failure value otherwise; login answers an unknown username and a
\* wrong password with the same 401 and the same message.
C2_AuthenticateExactly ==
    /\ \A username \in Usernames \cup {"mallory"}, password \in Passwords :
           authenticate_user(username, password) = Authenticates(username, password)
    /\ resp.op = "login" /\ Authenticates(resp.username, resp.password) = {}
           => /\ resp.status = 401
              /\ resp.exc = InvalidCredentials
              /\ HasMessage(resp.body, USER_VALIDATION_FAILED_MESSAGE)

\* C2 witness: a login with the password of nobody was refused for a
\* username that is registered.
C2_Witness ==
    /\ resp.op = "login"
    /\ resp.status = 401
    /\ \E u \in users : u.username = resp.username
    /\ \E u \in users : authenticate_user(u.username, "pw1") = {u}

AdminOps == {"get_all_todos", "admin_delete_todo"}

\* The request handled last carried a token that verifies.
TokenVerifies == resp.token # <<>> /\ get_current_user(resp.token[1]).exc = NoExc

TokenRole == get_current_user(resp.token[1]).user.user_role

Unregistered(cls) ==
    \A i \in 1..Len(Mro(cls)) :
        Mro(cls)[i] \in RegisteredKinds => Mro(cls)[i] = "Exception"

\* C4: an exception none of whose classes has a rule of its own is answered
\* with status 500 and the message "Internal server error", and its text is
\* not in the body.
C4_CatchAll ==
    resp.svc \in {"rescue", "books"} /\ resp.exc # NoExc /\ Unregistered(resp.exc.cls) =>
        /\ resp.status = 500
        /\ HasMessage(resp.body, "Internal server error")
        /\ \A i \in 1..Len(resp.body.errors) :
               resp.exc.message \notin Range(resp.body.errors[i][2].items)

\* C4 witness: a TypeError was answered.
C4_Witness ==
    /\ resp.svc = "rescue"
    /\ resp.exc.cls = "TypeError"
    /\ resp.status = 500

DomainKinds ==
    {"RecordNotFound", "RecordInvalid", "ParameterMissing", "UnpermittedParameters",
     "NotAuthorized"}

DocumentedStatus(cls) ==
    CASE cls = "RecordNotFound" -> 404
      [] cls = "RecordInvalid" -> 422
      [] cls = "ParameterMissing" -> 400
      [] cls = "UnpermittedParameters" -> 400
      [] cls = "NotAuthorized" -> 403

\* C5: for each domain error kind the status the exception carries is the
\* status of the response rendered for it (404, 422, 400, 400, 403), and the
\* kind is rendered by a rule of its own, not by the catch-all.
C5_OneStatusPerKind ==
    resp.svc \in {"rescue", "books"} /\ resp.exc.cls \in DomainKinds =>
        /\ resp.exc.status_code = resp.status
        /\ resp.status = DocumentedStatus(resp.exc.cls)
        /\ resp.rule = resp.exc.cls

\* C6: the 422 response to a validation failure reports every error of the
\* list: the errors map has a key for the error's location without its
\* first segment, joined by ".", and the list under it holds the message.
C6_AllErrorsReported ==
    resp.exc.cls = "RequestValidationError" =>
        /\ resp.status = 422
        /\ \A i \in 1..Len(resp.exc.errs) :
               /\ DictHas(resp.body.errors, FieldOf(resp.exc.errs[i].loc))
               /\ resp.exc.errs[i].msg \in
                      Range(DictGet(resp.body.errors, FieldOf(resp.exc.errs[i].loc)).items)

\* The token of a login response is one get_current_user accepts for the
\* user who logged in.
LoginTokenAccepted ==
    /\ resp.body.access_token # <<>>
    /\ LET got == get_current_user(resp.body.access_token[1]) IN
       /\ got.exc = NoExc
       /\ \E u \in Authenticates(resp.username, resp.password) :
              got.user = [username |-> Some(u.username), id |-> Some(u.id),
                          user_role |-> Some(u.role)]

Unacceptable(token, at) ==
    \/ ~token.wf
    \/ token.alg # ALGORITHM
    \/ token.sig # Sign(SECRET_KEY, token.alg, token.sub, token.id, token.role, token.exp)
    \/ token.exp < at
    \/ token.sub = None
    \/ token.id = None

\* C8: whatever makes the token unacceptable (it does not parse, names
\* another algorithm, has a signature that does not match, has expired,
\* lacks the subject or the id), get_current_user raises the one 401
\* failure with the one message, and nothing else leaves it.
C8_OneFailure ==
    resp.svc = "verify" =>
        /\ resp.exc \in {NoExc, InvalidCredentials}
        /\ Unacceptable(resp.token[1], resp.at) <=> resp.exc = InvalidCredentials

\* C8 witness: a token signed with the configured key, not expired, without
\* a subject, was refused.
C8_Witness ==
    /\ resp.svc = "verify"
    /\ resp.exc = InvalidCredentials
    /\ resp.token[1].sub = None
    /\ resp.token[1].exp >= resp.at
    /\ resp.token[1].sig = Sign(SECRET_KEY, ALGORITHM, None, resp.token[1].id,
                                resp.token[1].role, resp.token[1].exp)

\* C9: every request of the book service and of the TodoApp that ends in an
\* error ends with a response rendered through json_response: an error
\* status, and a body with a top-level errors object and a top-level
\* timestamp.
C9_ErrorEnvelope ==
    resp.svc \in {"books", "todo"} /\ resp.exc # NoExc =>
        /\ resp.status >= 400
        /\ {"errors", "timestamp"} \subseteq resp.body.keys
        /\ resp.body.errors # NoErrors
        /\ resp.body.timestamp = resp.at

\* C9 witness: a todo that is not there was asked for, with a valid token.
C9_Witness ==
    /\ resp.op = "read_todo"
    /\ resp.status = 404
    /\ resp.reached

\* The request handled last asked a route that raises RecordNotFound for an
\* id that is not in its store.
AskedForMissing ==
    \/ /\ resp.op \in {"show", "update", "destroy"}
       /\ resp.arg > 0
       /\ FindBook(resp.arg) = 0
       /\ ~resp.changed
    \/ /\ resp.op = "admin_delete_todo"
       /\ resp.at = now
       /\ TokenVerifies
       /\ TokenRole = Some("admin")
       /\ ~resp.changed
       /\ ~\E t \in todos : t.id = resp.arg

\* C10: a route that raises RecordNotFound, asked for an id that is not in
\* the store, answers 404 with the message "<resource> with identifier
\* '<id>' not found", and leaves the store unchanged.
C10_NotFound ==
    AskedForMissing =>
        /\ resp.status = 404
        /\ HasMessage(resp.body,
               (IF resp.svc = "books" THEN "Book" ELSE "Todo")
                   \o " with identifier '" \o ToString(resp.arg) \o "' not found")
        /\ ~resp.changed

\* C11: get_current_user returns an identity only for a token that is
\* signed with the configured key and algorithm, has not expired, and whose
\* payload holds the subject, the id and the role; a correctly signed,
\* unexpired token lacking any one of the three is refused with the 401
\* failure.
C11_IdentityNeedsAllClaims ==
    resp.svc = "verify" =>
        LET token == resp.token[1] IN
        /\ resp.exc = NoExc =>
              /\ ~Unacceptable(token, resp.at)
              /\ token.role # None
        /\ (/\ token.wf
            /\ token.alg = ALGORITHM
            /\ token.sig = Sign(SECRET_KEY, token.alg, token.sub, token.id,
                                token.role, token.exp)
            /\ token.exp >= resp.at
            /\ (token.sub = None \/ token.id = None \/ token.role = None))
           => resp.exc = InvalidCredentials

\* The ids of the books of a list, and the books of a list other than the
\* one of an id, in their order.
BookIds(books) == {books[i].id : i \in 1..Len(books)}

BooksOtherThan(books, book_id) == SelectSeq(books, LAMBDA b : b.id # book_id)

\* What an update or destroy request for resp'.arg may do to BOOKS.
C12_Step ==
    app = "books" =>
        /\ resp'.op = "update" =>
              /\ Len(BOOKS') = Len(BOOKS)
              /\ \A i \in 1..Len(BOOKS) :
                    /\ BOOKS'[i].id = BOOKS[i].id
                    /\ BOOKS[i].id # resp'.arg => BOOKS'[i] = BOOKS[i]
        /\ resp'.op = "destroy" =>
              /\ BooksOtherThan(BOOKS', resp'.arg) = BooksOtherThan(BOOKS, resp'.arg)
              /\ Len(BOOKS') >= Len(BOOKS) - 1
              /\ BookIds(BOOKS') \subseteq BookIds(BOOKS)

\* C12: after any sequence of create, update and destroy requests from the
\* initial list, no two books of BOOKS share an id and every id is a
\* positive integer; an update leaves every book's id as it was, and an
\* update or a destroy changes at most the one book of the id asked for.
C12_BookIds ==
    /\ [](app = "books" =>
            /\ \A i, j \in 1..Len(BOOKS) : i # j => BOOKS[i].id # BOOKS[j].id
            /\ \A i \in 1..Len(BOOKS) : BOOKS[i].id \in Nat \ {0})
    /\ [][C12_Step]_vars

\* C12 witness: the first book was destroyed, a book was created after
\* that, and the created book was then changed by an update.
C12_Witness ==
    /\ resp.svc = "books"
    /\ resp.op = "update"
    /\ resp.changed
    /\ 1 \notin BookIds(BOOKS)
    /\ resp.arg = 7
    /\ \E i \in 1..Len(BOOKS) : BOOKS[i].id = 7 /\ BOOKS[i].title = "Changed"

\* The non-admin todo routes.
TodoOps == {"read_all", "read_todo", "create_todo", "update_todo", "delete_todo"}

\* The id of the verified token of the request answered by resp', None when
\* the request carried no token or one that does not verify.
CallerId ==
    IF resp'.token = <<>> THEN None ELSE get_current_user(resp'.token[1]).user.id

\* The todo of an id in a store, as a set.
TodoOfId(store, id) == {t \in store : t.id = id}

\* What one request may do to the todos of the users (a step that leaves
\* the clock alone is a request).
C13_Step ==
    (app = "todo" /\ now' = now) =>
        \* a todo is returned only to its owner
        /\ resp'.op \in TodoOps =>
              \A t \in resp'.returned : CallerId = Some(t.owner_id)
        \* create_todo stores the caller's id as owner_id
        /\ \A t \in todos' : TodoOfId(todos, t.id) = {} =>
              /\ resp'.op = "create_todo"
              /\ CallerId = Some(t.owner_id)
        \* a todo is modified only by its owner, and keeps its owner
        /\ \A t \in todos : \A u \in TodoOfId(todos', t.id) : u # t =>
              /\ resp'.op = "update_todo"
              /\ CallerId = Some(t.owner_id)
              /\ u.owner_id = t.owner_id
        \* a todo is removed by its owner, or through the admin route
        /\ \A t \in todos : TodoOfId(todos', t.id) = {} =>
              \/ resp'.op = "delete_todo" /\ CallerId = Some(t.owner_id)
              \/ resp'.op = "admin_delete_todo"
        \* a request of a verified caller, passing validation, that names
        \* another user's todo is answered 404 and changes nothing
        /\ (/\ resp'.op \in {"read_todo", "update_todo", "delete_todo"}
            /\ CallerId # None
            /\ resp'.exc.cls # "RequestValidationError"
            /\ \E t \in todos : t.id = resp'.arg /\ Some(t.owner_id) # CallerId)
           => /\ resp'.status = 404
              /\ resp'.returned = {}
              /\ todos' = todos

====
